---- MODULE Spec2Model ----
(***************************************************************************)
(* Real-time collaboration subsystem of the Video Room Calculator:         *)
(* the facade (vrcSync), the sync integration (syncIntegration), the       *)
(* transport / awareness provider (yjsProvider) and the minimal replicated *)
(* map standing in for Yjs, in both builds of the repository (the ES       *)
(* modules and the bundled, non-module file).                              *)
(*                                                                         *)
(* The program is single threaded and event driven: one action of the      *)
(* model is one run-to-completion handler (a facade call, a timer firing   *)
(* or a socket event) together with every call it makes.  The handlers are *)
(* written as operators from a machine record M (all module-level          *)
(* variables of the program, the browser's sockets and timers, the host's  *)
(* room object) to the machine record after the call; an action commits    *)
(* the record its handler returns.                                         *)
(***************************************************************************)
EXTENDS Integers, Sequences, FiniteSets, TLC

VARIABLES
    build,                \* "module" | "bundle": which build is loaded
    \* ---- vrcSync (facade)
    isEnabled, currentRoomId, callbacks,
    \* ---- syncIntegration
    syncEnabled, isRemoteUpdate, lastSyncedState, syncCallbacks, localChangeTimer,
    \* ---- yjsProvider
    ydoc, wsProvider, awareness, connectionStatus, connectionListeners,
    awarenessListeners, roomId, localUser, reconnectAttempts, reconnectTimer,
    \* ---- browser and host
    sockets,              \* the WebSocket objects that can still deliver events
    timers,               \* the pending setTimeout callbacks
    roomObj,              \* the host's room object (getRoomObj / onRoomUpdate)
    \* ---- two browsers in one room
    clients,              \* the program and host of each of the two browsers
    wire,                 \* per browser, the frames the relay still has to deliver to it
    \* ---- what the last handler did (observations, reset by every action)
    op,                   \* the handler that ran and its inputs
    out,                  \* frames written to sockets, in order
    statusCalls,          \* statuses handed to the status callback, in order
    usersCalls,           \* user lists handed to the users callback, in order
    hostCalls,            \* room updates handed to the host, in order
    sets,                 \* the YMap.set calls made, in order
    budget,               \* how many more frames and host changes the run will see
    \* ---- history kept for the properties
    hist

vars == << build, isEnabled, currentRoomId, callbacks, syncEnabled, isRemoteUpdate,
           lastSyncedState, syncCallbacks, localChangeTimer, ydoc, wsProvider,
           awareness, connectionStatus, connectionListeners, awarenessListeners,
           roomId, localUser, reconnectAttempts, reconnectTimer, sockets, timers,
           roomObj, op, out, statusCalls, usersCalls, hostCalls, sets, budget, hist,
           clients, wire >>

-----------------------------------------------------------------------------
(* Program constants *)

RECONNECT_INTERVAL == 3000
MAX_RECONNECT_ATTEMPTS == 10
LOCAL_CHANGE_DEBOUNCE == 100
BackoffCap == 5

(* Bounds of the model *)

MaxSockets == 2      \* WebSocket objects alive at the same time
MaxEnables == 1      \* Spec: enable() calls in one run
AttemptCap == 1      \* Spec: the network ends sockets only below this attempt count
MaxFrames == 1       \* Spec: inbound frames delivered in one run
MaxSyncs == 1        \* Spec: host calls of sync() in one run
TransportEnables == 2     \* SpecTransport: enable() calls in one run
ReconnectCap == 11        \* SpecTransport: as AttemptCap, above MAX_RECONNECT_ATTEMPTS
TransportFrames == 1       \* SpecTransport: inbound frames delivered in one run
SyncEnables == 1          \* SpecSync: enable() calls in one run
SyncFrames == 3           \* SpecSync: inbound frames delivered in one run
SyncSyncs == 2            \* SpecSync: host calls of sync() in one run
SyncCap == 1              \* SpecSync: as AttemptCap
PresenceEnables == 2      \* SpecPresence: enable() calls in one run
PresenceFrameCount == 3   \* SpecPresence: inbound frames delivered in one run
RelayFrames == 8           \* SpecRelay: frames the relay delivers in one run
RelaySyncs == 2            \* SpecRelay: host calls of sync() in one run, both browsers together

-----------------------------------------------------------------------------
(* JavaScript values *)

EmptyObj == [k \in {} |-> TRUE]                 \* {}
Has(o, k) == k \in DOMAIN o                     \* o[k] !== undefined
Put(o, k, v) == [x \in (DOMAIN o) \cup {k} |-> IF x = k THEN v ELSE o[x]]
Spread(a, b) == [x \in (DOMAIN a) \cup (DOMAIN b) |-> IF x \in DOMAIN b THEN b[x] ELSE a[x]]
Min(a, b) == IF a < b THEN a ELSE b

NoSocket == 0
NoTimer == 0
TimerHandle == 1
NoUrl == << >>
NoRoom == "null"
NoUser == [id |-> "null", name |-> "null"]
Null == [null |-> TRUE]


-----------------------------------------------------------------------------
(* Inputs: users, rooms, endpoints *)

Users == { [id |-> "u1", name |-> "u1"], [id |-> "u2", name |-> "u2"] }
RoomIds == {"r1", "r2"}
location == [protocol |-> "https:", host |-> "host"]

\* the pages the program can be loaded from
Locations == [protocol : {"https:", "http:"}, host : {"host", "localhost:8080"}]

\* `${protocol}//${window.location.host}` for a page at loc
WsUrlFor(loc) == << IF loc.protocol = "https:" THEN "wss:" ELSE "ws:", loc.host >>
\* `${wsUrl}/ws/yjs/${roomId}` for a page at loc
EndpointFor(loc, r) == WsUrlFor(loc) \o << "ws", "yjs", r >>

\* getDefaultWsUrl(): the scheme mirrors the page's scheme
getDefaultWsUrl == WsUrlFor(location)
\* `${wsUrl}/ws/yjs/${roomId}`
FullUrl(r) == EndpointFor(location, r)

-----------------------------------------------------------------------------
(* The replicated document: Y.Doc with its YMaps *)

MapOrder == << "roomData", "items", "meta" >>
KeyOrder == << "name", "room", "chairs", "tables", "lastUpdated", "lastUpdatedBy" >>
ObservedMaps == {"roomData", "items"}

NoDoc == [alive |-> FALSE, observers |-> 0, data |-> EmptyObj]
NewDoc == [alive |-> TRUE, observers |-> 0,
           data |-> [roomData |-> EmptyObj, items |-> EmptyObj, meta |-> EmptyObj]]

NoAwareness == [alive |-> FALSE, localState |-> EmptyObj, states |-> EmptyObj]

\* JSON.stringify followed by TextEncoder.encode: the bytes of a JSON text
JSONStringify(v) == [kind |-> "json", value |-> v]
\* YMap.toJSON
toJSON(map) == map
\* a snapshot of the observed maps only
encodeStateAsUpdateObserved(doc) ==
    JSONStringify([m \in DOMAIN doc.data \cap ObservedMaps |-> toJSON(doc.data[m])])
\* Y.encodeStateAsUpdate: every map of the document
encodeStateAsUpdate(doc) == JSONStringify([m \in DOMAIN doc.data |-> toJSON(doc.data[m])])

-----------------------------------------------------------------------------
(* Browser: sockets and timers *)

NoSnap == EmptyObj
ClosedSocket == [url |-> NoUrl, readyState |-> "CLOSED"]
HasFreeSocket(M) == \E s \in 1..MaxSockets : M.sockets[s].readyState = "CLOSED"
FreeSocket(M) == CHOOSE s \in 1..MaxSockets :
                    /\ M.sockets[s].readyState = "CLOSED"
                    /\ \A t \in 1..MaxSockets : M.sockets[t].readyState = "CLOSED" => s <= t

\* clearTimeout(handle): the pending timer the handle variable refers to
clearTimeout(M, kind) == [M EXCEPT !.timers = {t \in @ : ~(t.kind = kind /\ t.held)}]
\* setTimeout(...): a new pending timer; the caller stores its handle
setTimeout(M, kind, url, snap, delay) ==
    [M EXCEPT !.timers = {[t EXCEPT !.held = IF t.kind = kind THEN FALSE ELSE @] : t \in @}
                          \cup {[kind |-> kind, url |-> url, snap |-> snap,
                                 delay |-> delay, held |-> TRUE]}]
\* WebSocket.close()
wsClose(M, s) ==
    IF M.sockets[s].readyState \in {"CONNECTING", "OPEN"}
    THEN [M EXCEPT !.sockets[s].readyState = "CLOSING"]
    ELSE M
\* WebSocket.send() on the socket held in wsProvider
wsSend(M, type, payload) ==
    [M EXCEPT !.out = Append(@, [sock |-> M.wsProvider, url |-> M.sockets[M.wsProvider].url,
                                 type |-> type, payload |-> payload])]
\* wsProvider && wsProvider.readyState === WebSocket.OPEN
SocketOpen(M) == M.wsProvider # NoSocket /\ M.sockets[M.wsProvider].readyState = "OPEN"

-----------------------------------------------------------------------------
(* yjsProvider: transport connection *)

\* connectionListeners.forEach(cb => cb(status)): every listener is the closure
\* registered by initSync, which forwards to syncCallbacks.onStatusChange
RunStatusListeners(M, n, status) ==
    IF M.syncCallbacks
    THEN [M EXCEPT !.statusCalls = @ \o [i \in 1..n |-> status]]
    ELSE M
notifyConnectionListeners(M, status) == RunStatusListeners(M, M.connectionListeners, status)

\* scheduleReconnect as it would be with a delay that grows without the cap of 5
scheduleReconnectNoCap(M, url) ==
    LET M1 == IF M.reconnectTimer # NoTimer THEN clearTimeout(M, "reconnect") ELSE M
    IN  IF M1.reconnectAttempts >= MAX_RECONNECT_ATTEMPTS
        THEN M1
        ELSE LET M2 == [M1 EXCEPT !.reconnectAttempts = @ + 1]
                 delay == RECONNECT_INTERVAL * M2.reconnectAttempts
                 M3 == notifyConnectionListeners(
                          [M2 EXCEPT !.connectionStatus = "connecting"], "connecting")
             IN  [setTimeout(M3, "reconnect", url, NoSnap, delay)
                     EXCEPT !.reconnectTimer = TimerHandle]

\* scheduleReconnect as it would be without clearing the timer it holds
scheduleReconnectNoClear(M, url) ==
    IF M.reconnectAttempts >= MAX_RECONNECT_ATTEMPTS
    THEN M
    ELSE LET M2 == [M EXCEPT !.reconnectAttempts = @ + 1]
             delay == RECONNECT_INTERVAL * Min(M2.reconnectAttempts, BackoffCap)
             M3 == notifyConnectionListeners(
                      [M2 EXCEPT !.connectionStatus = "connecting"], "connecting")
         IN  [setTimeout(M3, "reconnect", url, NoSnap, delay)
                 EXCEPT !.reconnectTimer = TimerHandle]

scheduleReconnect(M, url) ==
    LET M1 == IF M.reconnectTimer # NoTimer THEN clearTimeout(M, "reconnect") ELSE M
    IN  IF M1.reconnectAttempts >= MAX_RECONNECT_ATTEMPTS
        THEN M1
        ELSE LET M2 == [M1 EXCEPT !.reconnectAttempts = @ + 1]
                 delay == RECONNECT_INTERVAL * Min(M2.reconnectAttempts, BackoffCap)
                 M3 == notifyConnectionListeners(
                          [M2 EXCEPT !.connectionStatus = "connecting"], "connecting")
             IN  [setTimeout(M3, "reconnect", url, NoSnap, delay)
                     EXCEPT !.reconnectTimer = TimerHandle]

\* new WebSocket(url) throws (SyntaxError) for an endpoint with a fragment: a
\* room id that contains '#'
BadRoomIds == {"r#"}
BadUrls == {FullUrl(r) : r \in BadRoomIds}
CtorThrows(url) == url \in BadUrls

connectWebSocket(M, url) ==
    IF CtorThrows(url)
    THEN scheduleReconnect(
            notifyConnectionListeners(
               [M EXCEPT !.connectionStatus = "disconnected"], "disconnected"), url)
    ELSE LET s == FreeSocket(M)
         IN  [M EXCEPT !.sockets[s] = [url |-> url, readyState |-> "CONNECTING"],
                       !.wsProvider = s]

sendSyncStep1(M) ==
    IF ~SocketOpen(M) THEN M ELSE wsSend(M, 0, [kind |-> "none"])
sendSyncStep2(M) ==
    IF ~SocketOpen(M) \/ ~M.ydoc.alive THEN M ELSE wsSend(M, 1, encodeStateAsUpdate(M.ydoc))
sendUpdate(M, update) ==
    IF ~SocketOpen(M) THEN M ELSE wsSend(M, 2, update)
sendAwarenessUpdate(M) ==
    IF ~SocketOpen(M) \/ ~M.awareness.alive
    THEN M
    ELSE wsSend(M, 4, JSONStringify(M.awareness.localState))

\* the handlers connectWebSocket attaches to the socket it creates; they close
\* over url and read the module-level variables, not the socket they belong to
wsOnOpen(M) ==
    sendSyncStep1(notifyConnectionListeners(
        [M EXCEPT !.connectionStatus = "connected", !.reconnectAttempts = 0], "connected"))
\* a close handler that also destroys the document
wsOnCloseDestroy(M, url) ==
    scheduleReconnect(
        notifyConnectionListeners(
            [M EXCEPT !.connectionStatus = "disconnected", !.ydoc.alive = FALSE],
            "disconnected"), url)
wsOnClose(M, url) ==
    scheduleReconnect(
        notifyConnectionListeners(
            [M EXCEPT !.connectionStatus = "disconnected"], "disconnected"), url)
\* an error handler that schedules the reconnect itself
wsOnErrorReconnect(M) ==
    scheduleReconnect(
        notifyConnectionListeners(
            [M EXCEPT !.connectionStatus = "disconnected"], "disconnected"), FullUrl(M.roomId))
wsOnError(M) ==
    notifyConnectionListeners([M EXCEPT !.connectionStatus = "disconnected"], "disconnected")

setupAwareness(M) ==
    sendAwarenessUpdate(
        [M EXCEPT !.awareness =
            [alive |-> TRUE,
             localState |-> [user |-> M.localUser, cursor |-> "null",
                             selection |-> << >>, dragging |-> "null"],
             states |-> EmptyObj]])

initYjs(M, roomIdentifier, user) ==
    IF M.ydoc.alive
    THEN M
    ELSE setupAwareness(
            connectWebSocket(
               [M EXCEPT !.roomId = roomIdentifier, !.localUser = user, !.ydoc = NewDoc],
               FullUrl(roomIdentifier)))

\* observeChanges: the provider's observer is registered on yRoomData and yItems
observeChanges(M) ==
    IF ~M.ydoc.alive THEN M ELSE [M EXCEPT !.ydoc.observers = @ + 1]

\* onConnectionChange: push the listener and call it with the current status
onConnectionChange(M) ==
    RunStatusListeners([M EXCEPT !.connectionListeners = @ + 1], 1, M.connectionStatus)
onAwarenessChange(M) == [M EXCEPT !.awarenessListeners = @ + 1]

getConnectionStatus(M) == M.connectionStatus

disconnect(M) ==
    LET M1 == IF M.reconnectTimer # NoTimer
              THEN [clearTimeout(M, "reconnect") EXCEPT !.reconnectTimer = NoTimer]
              ELSE M
        M2 == IF M1.wsProvider # NoSocket
              THEN [wsClose(M1, M1.wsProvider) EXCEPT !.wsProvider = NoSocket]
              ELSE M1
    IN  [M2 EXCEPT !.ydoc = NoDoc, !.awareness = NoAwareness, !.roomId = NoRoom,
                   !.connectionStatus = "disconnected", !.reconnectAttempts = 0]

-----------------------------------------------------------------------------
(* syncIntegration: initSync / stopSync *)

initSync(M, r, user) ==
    IF M.syncEnabled
    THEN M
    ELSE LET M1 == [M EXCEPT !.syncCallbacks = TRUE]
             M2 == initYjs(M1, r, user)
             M3 == observeChanges(M2)          \* setupObservers
             M4 == onConnectionChange(M3)
             M5 == onAwarenessChange(M4)
         IN  [M5 EXCEPT !.syncEnabled = TRUE]

stopSync(M) ==
    LET M1 == IF M.localChangeTimer # NoTimer
              THEN [clearTimeout(M, "debounce") EXCEPT !.localChangeTimer = NoTimer]
              ELSE M
        M2 == disconnect(M1)
    IN  [M2 EXCEPT !.syncEnabled = FALSE, !.isRemoteUpdate = FALSE,
                   !.lastSyncedState = Null, !.syncCallbacks = FALSE]

-----------------------------------------------------------------------------
(* vrcSync: the facade *)

\* a disable that clears the facade's own state and leaves the sync layer running
disableFacadeOnly(M) ==
    IF ~M.isEnabled
    THEN M
    ELSE [M EXCEPT !.isEnabled = FALSE, !.currentRoomId = NoRoom, !.callbacks = FALSE]

disable(M) ==
    IF ~M.isEnabled
    THEN M
    ELSE [stopSync(M) EXCEPT !.isEnabled = FALSE, !.currentRoomId = NoRoom,
                             !.callbacks = FALSE]

enable(M, r, user) ==
    LET M1 == IF M.isEnabled THEN disable(M) ELSE M
        M2 == [M1 EXCEPT !.currentRoomId = r, !.callbacks = TRUE]
        M3 == initSync(M2, r, user)
    IN  [M3 EXCEPT !.isEnabled = TRUE]

getStatus(M) == getConnectionStatus(M)

-----------------------------------------------------------------------------
(* syncIntegration: remote -> local *)

JSONParse(text) == text.value
\* JSON.parse(JSON.stringify(v))
Clone(v) == JSONParse(JSONStringify(v))

applyRemoteRoomData(localRoomObj, remoteRoomData) ==
    LET u1 == IF Has(remoteRoomData, "name")
              THEN Put(localRoomObj, "name", remoteRoomData.name)
              ELSE localRoomObj
    IN  IF Has(remoteRoomData, "room")
        THEN Put(u1, "room",
                 Spread(IF Has(u1, "room") THEN u1.room ELSE EmptyObj, remoteRoomData.room))
        ELSE u1

\* the loop of applyRemoteItems as it would be if it appended to the local list
ItemsAfterRemoteUnion(localRoomObj, remoteItems) ==
    LET localItems == IF Has(localRoomObj, "items") THEN localRoomObj.items ELSE EmptyObj
    IN  Spread(localItems,
               [c \in DOMAIN remoteItems |->
                   IF Has(localItems, c) THEN localItems[c] \o Clone(remoteItems[c])
                   ELSE Clone(remoteItems[c])])

\* updated.items after the loop over Object.entries(remoteItems); when the local
\* object has an items container it is this same container, changed in place
ItemsAfterRemote(localRoomObj, remoteItems) ==
    Spread(IF Has(localRoomObj, "items") THEN localRoomObj.items ELSE EmptyObj,
           [c \in DOMAIN remoteItems |-> Clone(remoteItems[c])])

applyRemoteItems(localRoomObj, remoteItems) ==
    Put(localRoomObj, "items", ItemsAfterRemote(localRoomObj, remoteItems))

\* the object localRoomObj refers to, after applyRemoteItems has returned: the
\* spread copies the reference to its items container, so the assignments to
\* updated.items[category] are made in the caller's container
LocalAfterRemoteItems(localRoomObj, remoteItems) ==
    IF Has(localRoomObj, "items")
    THEN Put(localRoomObj, "items", ItemsAfterRemote(localRoomObj, remoteItems))
    ELSE localRoomObj

\* vrcSync.handleRemoteRoomDataChange; the host's callbacks are
\* getRoomObj: () => roomObj and onRoomUpdate: (updated) => { roomObj = updated }
\* guard is the value of isRemoteUpdate while the host's callback runs
handleRemoteRoomDataChange(M, remoteRoomData) ==
    IF ~M.callbacks
    THEN M
    ELSE LET currentRoomObj == M.roomObj
             updatedRoomObj == applyRemoteRoomData(currentRoomObj, remoteRoomData)
         IN  [M EXCEPT !.roomObj = updatedRoomObj,
                       !.hostCalls = Append(@, [via |-> "roomData", remote |-> remoteRoomData,
                                                local |-> currentRoomObj,
                                                after |-> currentRoomObj,
                                                guard |-> M.isRemoteUpdate,
                                                updated |-> updatedRoomObj])]

handleRemoteItemsChange(M, remoteItems) ==
    IF ~M.callbacks
    THEN M
    ELSE LET currentRoomObj == M.roomObj
             updatedRoomObj == applyRemoteItems(currentRoomObj, remoteItems)
         IN  [M EXCEPT !.roomObj = updatedRoomObj,
                       !.hostCalls = Append(@, [via |-> "items", remote |-> remoteItems,
                                                local |-> currentRoomObj,
                                                after |-> LocalAfterRemoteItems(currentRoomObj,
                                                                                remoteItems),
                                                guard |-> M.isRemoteUpdate,
                                                updated |-> updatedRoomObj])]

handleRemoteChange(M) ==
    IF ~M.ydoc.alive
    THEN M
    ELSE LET remoteRoomData == toJSON(M.ydoc.data.roomData)
             remoteItems == toJSON(M.ydoc.data.items)
             M1 == IF M.syncCallbacks /\ DOMAIN remoteRoomData # {}
                   THEN handleRemoteRoomDataChange(M, remoteRoomData)
                   ELSE M
         IN  IF M1.syncCallbacks /\ DOMAIN remoteItems # {}
             THEN handleRemoteItemsChange(M1, remoteItems)
             ELSE M1

\* the callback setupObservers hands to observeChanges
syncObserver(M, local) ==
    IF M.isRemoteUpdate THEN M
    ELSE IF ~local THEN handleRemoteChange(M) ELSE M

\* the observer observeChanges registers on yRoomData and yItems
providerObserver(M, local) ==
    syncObserver(IF local THEN sendUpdate(M, encodeStateAsUpdate(M.ydoc)) ELSE M, local)

RECURSIVE RunObservers(_, _, _)
RunObservers(M, n, local) ==
    IF n = 0 THEN M ELSE RunObservers(providerObserver(M, local), n - 1, local)

\* YMap.notifyObservers(changes, transaction)
notifyObservers(M, map, local) ==
    IF map \in ObservedMaps THEN RunObservers(M, M.ydoc.observers, local) ELSE M

\* doc.getMap(name): the map is created when the document does not have it
getMap(M, map) ==
    IF map \in DOMAIN M.ydoc.data THEN M ELSE [M EXCEPT !.ydoc.data = Put(@, map, EmptyObj)]

\* YMap.set(key, value): always tagged local
YMapSet(M, map, key, value) ==
    notifyObservers([M EXCEPT !.ydoc.data[map] = Put(@, key, value),
                              !.sets = Append(@, << map, key >>)], map, TRUE)

-----------------------------------------------------------------------------
(* Y.applyUpdate of the two builds *)

KeysOf(o) == SelectSeq(KeyOrder, LAMBDA k : k \in DOMAIN o)
MapsOf(d) == SelectSeq(MapOrder, LAMBDA m : m \in DOMAIN d)

\* Object.entries(data) and, inside, Object.entries(value), flattened
RECURSIVE DocEntries(_, _)
DocEntries(d, ms) ==
    IF ms = << >>
    THEN << >>
    ELSE LET m == Head(ms)
             ks == KeysOf(d[m])
         IN  [i \in 1..Len(ks) |-> [map |-> m, key |-> ks[i], val |-> d[m][ks[i]]]]
             \o DocEntries(d, Tail(ms))

\* module build (yjsProvider.js, window.Y): map.set(k, v)
ApplyEntryModule(M, e) == YMapSet(getMap(M, e.map), e.map, e.key, e.val)
\* the bundled applyUpdate as it would be if it tagged its changes local
ApplyEntryBundleLocal(M, e) ==
    LET M1 == getMap(M, e.map)
    IN  notifyObservers([M1 EXCEPT !.ydoc.data[e.map] = Put(@, e.key, e.val)], e.map, TRUE)

\* bundled build: map.data[k] = v; map.notifyObservers(..., {local: false, origin})
ApplyEntryBundle(M, e) ==
    LET M1 == getMap(M, e.map)
    IN  notifyObservers([M1 EXCEPT !.ydoc.data[e.map] = Put(@, e.key, e.val)], e.map, FALSE)

ApplyEntry(M, e) ==
    IF M.build = "module" THEN ApplyEntryModule(M, e) ELSE ApplyEntryBundle(M, e)

RECURSIVE ApplyEntries(_, _)
ApplyEntries(M, es) ==
    IF es = << >> THEN M ELSE ApplyEntries(ApplyEntry(M, Head(es)), Tail(es))

\* a map entry of the payload that is null: Object.entries(null) throws
IsNull(v) == "null" \in DOMAIN v

\* the outer loop: getMap(key), then the entries of the map; a throw ends the
\* whole call in the catch, with the maps before it already written
RECURSIVE ApplyMaps(_, _, _)
ApplyMaps(M, d, ms) ==
    IF ms = << >>
    THEN M
    ELSE LET M1 == getMap(M, Head(ms))
         IN  IF IsNull(d[Head(ms)])
             THEN M1
             ELSE ApplyMaps(ApplyEntries(M1, DocEntries(d, << Head(ms) >>)), d, Tail(ms))

YapplyUpdate(M, update) ==
    IF update.kind # "json"
    THEN M                                   \* JSON.parse throws, caught
    ELSE ApplyMaps(M, JSONParse(update), MapsOf(JSONParse(update)))

\* yjsProvider.applyState / applyUpdate
applyState(M, payload) ==
    IF ~M.ydoc.alive \/ payload.kind = "none" THEN M ELSE YapplyUpdate(M, payload)
applyUpdate(M, payload) ==
    IF ~M.ydoc.alive \/ payload.kind = "none" THEN M ELSE YapplyUpdate(M, payload)

-----------------------------------------------------------------------------
(* yjsProvider: awareness and message dispatch *)

PeerOrder == << "u1", "u2", "A" >>

\* getConnectedUsers as it would be if it listed the peers only
getConnectedUsersPeersOnly(M) ==
    IF ~M.awareness.alive
    THEN << >>
    ELSE LET ids == SelectSeq(PeerOrder, LAMBDA p : p \in DOMAIN M.awareness.states)
         IN  [i \in 1..Len(ids) |-> [state |-> M.awareness.states[ids[i]],
                                     isLocal |-> FALSE]]

\* getConnectedUsers(): the local state first, then awareness.states.forEach.
\* awarenessListeners.forEach(cb => cb(type, data)): every listener is the closure
\* of initSync, which hands getConnectedUsers() to syncCallbacks.onUsersChange
getConnectedUsers(M) ==
    IF ~M.awareness.alive
    THEN << >>
    ELSE LET ids == SelectSeq(PeerOrder, LAMBDA p : p \in DOMAIN M.awareness.states)
         IN  << [state |-> M.awareness.localState, isLocal |-> TRUE] >>
             \o [i \in 1..Len(ids) |-> [state |-> M.awareness.states[ids[i]],
                                        isLocal |-> FALSE]]

notifyAwarenessListeners(M) ==
    IF M.syncCallbacks
    THEN [M EXCEPT !.usersCalls = @ \o [i \in 1..M.awarenessListeners |-> getConnectedUsers(M)]]
    ELSE M

\* handleAwarenessUpdate as it would be without the comparison with localUser.id
handleAwarenessUpdateNoFilter(M, payload) ==
    IF payload.kind # "json"
    THEN M
    ELSE LET data == JSONParse(payload)
         IN  IF Has(data, "user")
             THEN IF ~M.awareness.alive
                  THEN M
                  ELSE notifyAwarenessListeners(
                          [M EXCEPT !.awareness.states = Put(@, data.user.id, data)])
             ELSE M

handleAwarenessUpdate(M, payload) ==
    IF payload.kind # "json"
    THEN M                                   \* JSON.parse throws, caught
    ELSE LET data == JSONParse(payload)
         IN  IF Has(data, "user") /\ data.user.id # M.localUser.id
             THEN IF ~M.awareness.alive
                  THEN M                     \* awareness is null: TypeError, caught
                  ELSE notifyAwarenessListeners(
                          [M EXCEPT !.awareness.states = Put(@, data.user.id, data)])
             ELSE M

\* an update that replaces the local record by the given fields
updateAwarenessReplace(M, updates) ==
    IF ~M.awareness.alive
    THEN M
    ELSE sendAwarenessUpdate([M EXCEPT !.awareness.localState = updates])

updateAwareness(M, updates) ==
    IF ~M.awareness.alive
    THEN M
    ELSE sendAwarenessUpdate([M EXCEPT !.awareness.localState = Spread(@, updates)])

\* handleMessage without the length check: an empty frame is answered as a
\* state request
handleMessageNoLengthCheck(M, frame) ==
    IF frame.empty
    THEN sendSyncStep2(M)
    ELSE CASE frame.type = 0 -> sendSyncStep2(M)
           [] frame.type = 1 -> applyState(M, frame.payload)
           [] frame.type = 2 -> applyUpdate(M, frame.payload)
           [] frame.type = 3 -> sendAwarenessUpdate(M)
           [] frame.type = 4 -> handleAwarenessUpdate(M, frame.payload)
           [] OTHER -> M

handleMessage(M, frame) ==
    IF frame.empty
    THEN M
    ELSE CASE frame.type = 0 -> sendSyncStep2(M)
           [] frame.type = 1 -> applyState(M, frame.payload)
           [] frame.type = 2 -> applyUpdate(M, frame.payload)
           [] frame.type = 3 -> sendAwarenessUpdate(M)
           [] frame.type = 4 -> handleAwarenessUpdate(M, frame.payload)
           [] OTHER -> M

-----------------------------------------------------------------------------
(* syncIntegration: local -> remote *)

RoomDataFields == << "name", "room" >>
itemCategories == << "chairs", "tables" >>

createSyncableRoomObj(obj) ==
    LET basic == [k \in {"name"} \cap DOMAIN obj |-> obj[k]]
        withRoom == IF Has(obj, "room") THEN Put(basic, "room", obj.room) ELSE basic
    IN  IF Has(obj, "items")
        THEN Put(withRoom, "items",
                 [c \in {itemCategories[i] : i \in 1..Len(itemCategories)} \cap DOMAIN obj.items
                     |-> Clone(obj.items[c])])
        ELSE withRoom

\* for (const [key, value] of Object.entries(o)) if (value !== undefined) map.set(key, value)
RECURSIVE SetFields(_, _, _, _)
SetFields(M, map, o, keys) ==
    IF keys = << >>
    THEN M
    ELSE SetFields(IF Has(o, Head(keys)) THEN YMapSet(M, map, Head(keys), o[Head(keys)]) ELSE M,
                   map, o, Tail(keys))

\* performSync as it would be without the comparison with lastSyncedState
performSyncNoGuard(M, obj, now) ==
    IF ~M.ydoc.alive
    THEN M
    ELSE LET roomObjCopy == createSyncableRoomObj(obj)
             M1 == [M EXCEPT !.lastSyncedState = JSONStringify(roomObjCopy),
                             !.isRemoteUpdate = TRUE]
             M2 == SetFields(M1, "roomData", roomObjCopy, RoomDataFields)
             M3 == IF Has(roomObjCopy, "items")
                   THEN SetFields(M2, "items", roomObjCopy.items, itemCategories)
                   ELSE M2
             M4 == YMapSet(M3, "meta", "lastUpdated", now)
             M5 == YMapSet(M4, "meta", "lastUpdatedBy", M4.localUser.id)
         IN  [M5 EXCEPT !.isRemoteUpdate = FALSE]

performSync(M, obj, now) ==
    IF ~M.ydoc.alive
    THEN M
    ELSE LET roomObjCopy == createSyncableRoomObj(obj)
             currentState == JSONStringify(roomObjCopy)
         IN  IF currentState = M.lastSyncedState
             THEN M
             ELSE LET M1 == [M EXCEPT !.lastSyncedState = currentState,
                                      !.isRemoteUpdate = TRUE]
                      M2 == SetFields(M1, "roomData", roomObjCopy, RoomDataFields)
                      M3 == IF Has(roomObjCopy, "items")
                            THEN SetFields(M2, "items", roomObjCopy.items, itemCategories)
                            ELSE M2
                      M4 == YMapSet(M3, "meta", "lastUpdated", now)
                      M5 == YMapSet(M4, "meta", "lastUpdatedBy", M4.localUser.id)
                  IN  [M5 EXCEPT !.isRemoteUpdate = FALSE]

\* syncRoomObj as it would be without its clearTimeout
syncRoomObjNoCancel(M, obj) ==
    IF ~M.syncEnabled
    THEN M
    ELSE [setTimeout(M, "debounce", NoUrl, obj, LOCAL_CHANGE_DEBOUNCE)
             EXCEPT !.localChangeTimer = TimerHandle]

syncRoomObj(M, obj) ==
    IF ~M.syncEnabled
    THEN M
    ELSE LET M1 == IF M.localChangeTimer # NoTimer THEN clearTimeout(M, "debounce") ELSE M
         IN  [setTimeout(M1, "debounce", NoUrl, obj, LOCAL_CHANGE_DEBOUNCE)
                 EXCEPT !.localChangeTimer = TimerHandle]

updateCursorSI(M, position) ==
    IF ~M.syncEnabled THEN M ELSE updateAwareness(M, [cursor |-> position])
updateSelectionSI(M, selectedIds) ==
    IF ~M.syncEnabled THEN M ELSE updateAwareness(M, [selection |-> selectedIds])

\* sync that starts the debounce timer whatever the state of the session
syncAlways(M, obj) ==
    [setTimeout(M, "debounce", NoUrl, obj, LOCAL_CHANGE_DEBOUNCE)
        EXCEPT !.localChangeTimer = TimerHandle]

\* vrcSync: sync / updateCursor / updateSelection
sync(M, obj) == IF ~M.isEnabled THEN M ELSE syncRoomObj(M, obj)
updateCursor(M, position) == IF ~M.isEnabled THEN M ELSE updateCursorSI(M, position)
updateSelection(M, selectedIds) == IF ~M.isEnabled THEN M ELSE updateSelectionSI(M, selectedIds)
getUsers(M) == getConnectedUsers(M)

-----------------------------------------------------------------------------
(* Inputs of the host and of the network *)

Times == {1}                                      \* values Date.now() returns
Positions == {"p1"}                               \* cursor positions
Selections == { << "x" >> }                       \* selections

Snapshots ==
    << [name |-> "a"],
       [name |-> "a", items |-> [chairs |-> << "y", "z" >>]],
       [name |-> "b", room |-> [w |-> 1, h |-> 1],
        items |-> [chairs |-> << "x" >>, tables |-> << "t" >>]] >>

PeerState(id) == [user |-> [id |-> id, name |-> id], cursor |-> "p1",
                  selection |-> << >>, dragging |-> "null"]

Frame(type, payload) == [empty |-> FALSE, type |-> type, payload |-> payload]
NoPayload == [kind |-> "none"]
Corrupt == [kind |-> "corrupt"]

DocA == [items |-> [chairs |-> << "x" >>]]
DocB == [roomData |-> [name |-> "b", room |-> [w |-> 2]],
         items |-> [chairs |-> << "x" >>, tables |-> << "t" >>],
         meta |-> [lastUpdated |-> 1, lastUpdatedBy |-> "A"]]

\* a payload that parses, with a map entry that is not an object
DocBad == [roomData |-> [name |-> "c"], items |-> Null]

InFrames ==
    << [empty |-> TRUE, type |-> 0, payload |-> NoPayload],
       Frame(0, NoPayload),
       Frame(1, JSONStringify(DocB)),
       Frame(2, JSONStringify(DocA)),
       Frame(2, JSONStringify(DocB)),
       Frame(2, Corrupt),
       Frame(2, NoPayload),
       Frame(3, NoPayload),
       Frame(4, JSONStringify(PeerState("u1"))),
       Frame(4, JSONStringify(PeerState("u2"))),
       Frame(4, JSONStringify(PeerState("A"))),
       Frame(4, JSONStringify([cursor |-> "p1"])),
       Frame(4, Corrupt),
       Frame(9, NoPayload),
       Frame(2, JSONStringify(DocBad)) >>

-----------------------------------------------------------------------------
(* The machine record and its commit *)

Cur == [build |-> build, isEnabled |-> isEnabled, currentRoomId |-> currentRoomId,
        callbacks |-> callbacks, syncEnabled |-> syncEnabled,
        isRemoteUpdate |-> isRemoteUpdate, lastSyncedState |-> lastSyncedState,
        syncCallbacks |-> syncCallbacks, localChangeTimer |-> localChangeTimer,
        ydoc |-> ydoc, wsProvider |-> wsProvider, awareness |-> awareness,
        connectionStatus |-> connectionStatus, connectionListeners |-> connectionListeners,
        awarenessListeners |-> awarenessListeners, roomId |-> roomId,
        localUser |-> localUser, reconnectAttempts |-> reconnectAttempts,
        reconnectTimer |-> reconnectTimer, sockets |-> sockets, timers |-> timers,
        roomObj |-> roomObj, out |-> out, statusCalls |-> statusCalls,
        usersCalls |-> usersCalls, hostCalls |-> hostCalls, sets |-> sets]

\* everything the program holds, without the observations of one step
programVars ==
    << isEnabled, currentRoomId, callbacks, syncEnabled, isRemoteUpdate, lastSyncedState,
       syncCallbacks, localChangeTimer, ydoc, wsProvider, awareness, connectionStatus,
       connectionListeners, awarenessListeners, roomId, localUser, reconnectAttempts,
       reconnectTimer, sockets, timers, roomObj >>

\* the machine at the start of a handler: nothing observed yet
Start == [Cur EXCEPT !.out = << >>, !.statusCalls = << >>, !.usersCalls = << >>,
                     !.hostCalls = << >>, !.sets = << >>]

Commit(M, o, h) ==
    /\ build' = M.build
    /\ isEnabled' = M.isEnabled
    /\ currentRoomId' = M.currentRoomId
    /\ callbacks' = M.callbacks
    /\ syncEnabled' = M.syncEnabled
    /\ isRemoteUpdate' = M.isRemoteUpdate
    /\ lastSyncedState' = M.lastSyncedState
    /\ syncCallbacks' = M.syncCallbacks
    /\ localChangeTimer' = M.localChangeTimer
    /\ ydoc' = M.ydoc
    /\ wsProvider' = M.wsProvider
    /\ awareness' = M.awareness
    /\ connectionStatus' = M.connectionStatus
    /\ connectionListeners' = M.connectionListeners
    /\ awarenessListeners' = M.awarenessListeners
    /\ roomId' = M.roomId
    /\ localUser' = M.localUser
    /\ reconnectAttempts' = M.reconnectAttempts
    /\ reconnectTimer' = M.reconnectTimer
    /\ sockets' = M.sockets
    /\ timers' = M.timers
    /\ roomObj' = M.roomObj
    /\ out' = M.out
    /\ statusCalls' = M.statusCalls
    /\ usersCalls' = M.usersCalls
    /\ hostCalls' = M.hostCalls
    /\ sets' = M.sets
    /\ op' = o
    /\ hist' = h
    /\ UNCHANGED << clients, wire >>

NoHist == [k |-> 0, calls |-> 0, lastCall |-> NoSnap, fired |-> Null,
           recent |-> << >>, exhausted |-> FALSE, implicit |-> NoRoom,
           torn |-> FALSE]

\* the two browsers of the relay; each starts as the program after loading
Browsers == {1, 2}

InitProgram ==
    /\ build \in {"module", "bundle"}
    /\ isEnabled = FALSE
    /\ currentRoomId = NoRoom
    /\ callbacks = FALSE
    /\ syncEnabled = FALSE
    /\ isRemoteUpdate = FALSE
    /\ lastSyncedState = Null
    /\ syncCallbacks = FALSE
    /\ localChangeTimer = NoTimer
    /\ ydoc = NoDoc
    /\ wsProvider = NoSocket
    /\ awareness = NoAwareness
    /\ connectionStatus = "disconnected"
    /\ connectionListeners = 0
    /\ awarenessListeners = 0
    /\ roomId = NoRoom
    /\ localUser = NoUser
    /\ reconnectAttempts = 0
    /\ reconnectTimer = NoTimer
    /\ sockets = [s \in 1..MaxSockets |-> ClosedSocket]
    /\ timers = {}
    /\ roomObj = Snapshots[2]
    /\ op = [name |-> "init"]
    /\ out = << >>
    /\ statusCalls = << >>
    /\ usersCalls = << >>
    /\ hostCalls = << >>
    /\ sets = << >>
    /\ hist = NoHist
    /\ clients = [c \in Browsers |-> Cur]
    /\ wire = [c \in Browsers |-> << >>]

-----------------------------------------------------------------------------
(* Actions: one per handler *)

HasReconnectTimer(M) == \E t \in M.timers : t.kind = "reconnect"
Scheduled(M, h) == IF HasReconnectTimer(M) THEN h.k + 1 ELSE h.k
\* a constructor that throws schedules one more reconnect while the budget lasts
Thrown(k, url) == IF CtorThrows(url) /\ k < MAX_RECONNECT_ATTEMPTS THEN k + 1 ELSE k
PushRecent(seq, id) == IF Len(seq) < 2 THEN Append(seq, id) ELSE << seq[2], id >>

\* a frame a peer other than the local user sent as its AwarenessUpdate
IsPeerAwareness(frame) ==
    /\ ~frame.empty /\ frame.type = 4 /\ frame.payload.kind = "json"
    /\ Has(frame.payload.value, "user")
    /\ frame.payload.value.user.id # localUser.id

\* the object a pending push will read: the items container of the snapshot is
\* the host's container, which applyRemoteItems changes in place
SnapshotNow(snap) ==
    IF Has(snap, "items") /\ Has(roomObj, "items")
    THEN Put(snap, "items", roomObj.items)
    ELSE snap

Spend(kind) == budget[kind] > 0 /\ budget' = [budget EXCEPT ![kind] = @ - 1]

\* VRCSync.enable(roomId, {user, onRoomUpdate, onRedraw, getRoomObj})
Enable(r, u) ==
    /\ Spend("enables")
    /\ HasFreeSocket(Cur)
    /\ LET M == enable(Start, r, u)
       IN  Commit(M, [name |-> "enable", room |-> r],
                  [hist EXCEPT !.k = Thrown(IF isEnabled THEN 0 ELSE @, FullUrl(r)),
                               !.calls = 0, !.fired = Null, !.recent = << >>,
                               !.exhausted = FALSE,
                               !.implicit = IF isEnabled THEN currentRoomId ELSE NoRoom,
                               !.torn = @ \/ isEnabled])

\* VRCSync.disable()
Disable ==
    /\ UNCHANGED budget
    /\ LET M == disable(Start)
       IN  Commit(M, [name |-> "disable", was |-> isEnabled],
               [hist EXCEPT !.k = IF isEnabled THEN 0 ELSE @,
                            !.calls = IF isEnabled THEN 0 ELSE @,
                            !.fired = IF isEnabled THEN Null ELSE @,
                            !.recent = IF isEnabled THEN << >> ELSE @,
                            !.implicit = NoRoom,
                            !.torn = @ \/ isEnabled])

\* the host changes its room object and calls VRCSync.sync(roomObj)
Sync(i) ==
    /\ Spend("syncs")
    /\ LET s == Snapshots[i]
           M == sync([Start EXCEPT !.roomObj = s], s)
       IN  Commit(M, [name |-> "sync", snap |-> s],
               [hist EXCEPT !.calls = IF isEnabled THEN @ + 1 ELSE @,
                            !.lastCall = IF isEnabled THEN s ELSE @])

\* the host calls VRCSync.sync(roomObj) again without a change
Resync ==
    /\ Spend("syncs")
    /\ LET M == sync(Start, roomObj)
       IN  Commit(M, [name |-> "sync", snap |-> roomObj],
               [hist EXCEPT !.calls = IF isEnabled THEN @ + 1 ELSE @,
                            !.lastCall = IF isEnabled THEN roomObj ELSE @])

\* the debounce timer fires: performSync(roomObj)
DebounceFire(t, now) ==
    /\ UNCHANGED budget
    /\ t \in timers /\ t.kind = "debounce"
    /\ LET obj == SnapshotNow(t.snap)
           M == performSync([Start EXCEPT !.timers = @ \ {t}], obj, now)
           text == JSONStringify(createSyncableRoomObj(obj))
       IN  Commit(M, [name |-> "debounce", obj |-> obj, snap |-> t.snap,
                      calls |-> hist.calls, last |-> hist.lastCall,
                      same |-> (text = hist.fired), open |-> SocketOpen(Cur),
                      enabled |-> syncEnabled],
                  [hist EXCEPT !.calls = 0,
                               !.fired = IF ydoc.alive THEN text ELSE @])

\* the reconnect timer fires: connectWebSocket(url)
ReconnectFire(t) ==
    /\ UNCHANGED budget
    /\ t \in timers /\ t.kind = "reconnect"
    /\ HasFreeSocket(Cur)
    /\ LET M == connectWebSocket([Start EXCEPT !.timers = @ \ {t}], t.url)
       IN  Commit(M, [name |-> "reconnectFire", url |-> t.url, delay |-> t.delay],
                  [hist EXCEPT !.k = Thrown(@, t.url)])

\* the socket's open event
OnOpen(s) ==
    /\ UNCHANGED budget
    /\ sockets[s].readyState = "CONNECTING"
    /\ LET M == wsOnOpen([Start EXCEPT !.sockets[s].readyState = "OPEN"])
       IN  Commit(M, [name |-> "onopen", sock |-> s], [hist EXCEPT !.k = 0])

\* the network may end a socket while fewer than cap reconnects were counted;
\* a socket the program closed always completes its close
MayEnd(s, cap) ==
    \/ sockets[s].readyState = "CLOSING"
    \/ sockets[s].readyState = "OPEN" /\ reconnectAttempts < cap

MayFail(s, cap) ==
    \/ sockets[s].readyState = "CLOSING"
    \/ sockets[s].readyState \in {"CONNECTING", "OPEN"} /\ reconnectAttempts < cap

AfterClose(M, h) ==
    [h EXCEPT !.k = Scheduled(M, h),
              !.exhausted = @ \/ h.k >= MAX_RECONNECT_ATTEMPTS]

\* the socket's close event (a clean close)
OnClose(s, cap) ==
    /\ UNCHANGED budget
    /\ MayEnd(s, cap)
    /\ LET M == wsOnClose([Start EXCEPT !.sockets[s] = ClosedSocket], sockets[s].url)
       IN  Commit(M, [name |-> "onclose", sock |-> s, url |-> sockets[s].url,
                      wasCurrent |-> (wsProvider = s)],
                  AfterClose(M, hist))

\* the connection fails: the socket's error event, then its close event
OnError(s, cap) ==
    /\ UNCHANGED budget
    /\ MayFail(s, cap)
    /\ LET M == wsOnClose(wsOnError([Start EXCEPT !.sockets[s] = ClosedSocket]),
                          sockets[s].url)
           E == wsOnError([Start EXCEPT !.sockets[s] = ClosedSocket])
       IN  Commit(M, [name |-> "onerror", sock |-> s, url |-> sockets[s].url,
                      wasCurrent |-> (wsProvider = s),
                      errorAlone |-> [status |-> E.connectionStatus,
                                      scheduled |-> E.reconnectAttempts > reconnectAttempts
                                                    \/ E.timers # timers]],
                  AfterClose(M, hist))

\* the socket's message event
OnMessage(s, i) ==
    /\ Spend("frames")
    /\ sockets[s].readyState = "OPEN"
    /\ LET frame == InFrames[i]
           M == handleMessage(Start, frame)
       IN  Commit(M, [name |-> "onmessage", sock |-> s, frame |-> frame,
                      before |-> awareness, docBefore |-> ydoc],
                  [hist EXCEPT !.recent = IF IsPeerAwareness(frame) /\ awareness.alive
                                          THEN PushRecent(@, frame.payload.value.user.id)
                                          ELSE @])

\* VRCSync.updateCursor(position) / VRCSync.updateSelection(ids)
UpdateCursor(p) ==
    /\ UNCHANGED budget
    /\ Commit(updateCursor(Start, p), [name |-> "updateCursor", arg |-> p], hist)
UpdateSelection(ids) ==
    /\ UNCHANGED budget
    /\ Commit(updateSelection(Start, ids), [name |-> "updateSelection", arg |-> ids], hist)

\* the frames that carry a document and the frames that carry presence
DocFrames == (1..8) \cup {15}
PresenceFrames == 9..13
\* the SyncRequest of a peer that joins
HandshakeFrames == {2}

Lifecycle ==
    \/ \E r \in RoomIds, u \in Users : Enable(r, u)
    \/ Disable
    \/ \E s \in 1..MaxSockets : OnOpen(s)

Network(cap) ==
    \/ \E t \in timers : ReconnectFire(t)
    \/ \E s \in 1..MaxSockets : OnClose(s, cap)
    \/ \E s \in 1..MaxSockets : OnError(s, cap)

Editing ==
    \/ \E i \in 1..Len(Snapshots) : Sync(i)
    \/ Resync
    \/ \E t \in timers, now \in Times : DebounceFire(t, now)

Pointing ==
    \/ \E p \in Positions : UpdateCursor(p)
    \/ \E ids \in Selections : UpdateSelection(ids)

Receive(frames) == \E s \in 1..MaxSockets, i \in frames : OnMessage(s, i)

\* the whole program, in a short run
Init ==
    /\ InitProgram
    /\ budget = [enables |-> MaxEnables, frames |-> MaxFrames, syncs |-> MaxSyncs]

Next ==
    \/ Lifecycle
    \/ Network(AttemptCap)
    \/ Editing
    \/ Pointing
    \/ Receive(1..Len(InFrames))

Spec == Init /\ [][Next]_vars

\* sessions and the transport: connect, fail, back off, give up
InitTransport ==
    /\ InitProgram
    /\ budget = [enables |-> TransportEnables, frames |-> TransportFrames, syncs |-> 0]

NextTransport ==
    \/ Lifecycle
    \/ Network(ReconnectCap)
    \/ \E r \in BadRoomIds, u \in Users : Enable(r, u)
    \/ Receive(HandshakeFrames)

SpecTransport == InitTransport /\ [][NextTransport]_vars

\* the document: local pushes and remote updates
InitSync ==
    /\ InitProgram
    /\ budget = [enables |-> SyncEnables, frames |-> SyncFrames, syncs |-> SyncSyncs]

NextSync == Lifecycle \/ Network(SyncCap) \/ Editing \/ Receive(DocFrames)

SpecSync == InitSync /\ [][NextSync]_vars

\* presence: peers' awareness frames and the local cursor and selection
InitPresence ==
    /\ InitProgram
    /\ budget = [enables |-> PresenceEnables, frames |-> PresenceFrameCount, syncs |-> 0]

NextPresence == Lifecycle \/ Pointing \/ Receive(PresenceFrames)

SpecPresence == InitPresence /\ [][NextPresence]_vars

\* the store alone: documents over roomData, items and meta, each map absent or
\* holding some of its keys
PartialObjs(full) == {[k \in ks |-> full[k]] : ks \in SUBSET DOMAIN full}
StoreMaps ==
    [roomData |-> PartialObjs([name |-> "a", room |-> [w |-> 1]])
                      \cup {[name |-> "b"], [name |-> "b", room |-> [w |-> 1]]},
     items    |-> PartialObjs([chairs |-> << "x" >>, tables |-> << "t" >>]),
     meta     |-> PartialObjs([lastUpdated |-> 1])]
StoreDocs ==
    {d \in UNION {[ms -> UNION {StoreMaps[m] : m \in ms}] : ms \in SUBSET DOMAIN StoreMaps} :
        \A m \in DOMAIN d : d[m] \in StoreMaps[m]}

\* new Y.Doc()
EmptyDoc == [alive |-> TRUE, observers |-> 0, data |-> EmptyObj]

\* Y.applyUpdate(peer, Y.encodeStateAsUpdate(doc)) with peer a new Y.Doc()
StoreRoundTrip(d) ==
    LET doc  == [EmptyDoc EXCEPT !.data = d]
        peer == YapplyUpdate([Start EXCEPT !.ydoc = EmptyDoc], encodeStateAsUpdate(doc))
    IN  /\ Commit(Cur, [name |-> "roundtrip", doc |-> doc, peer |-> peer.ydoc], hist)
        /\ UNCHANGED budget

\* initYjs on a page at loc: the URL handed to connectWebSocket
StoreEndpoint(loc, r) ==
    /\ Commit(Cur, [name |-> "endpoint", loc |-> loc, room |-> r, url |-> EndpointFor(loc, r)],
              hist)
    /\ UNCHANGED budget

InitStore ==
    /\ InitProgram
    /\ budget = [enables |-> 0, frames |-> 0, syncs |-> 0]

NextStore ==
    \/ \E d \in StoreDocs : StoreRoundTrip(d)
    \/ \E loc \in Locations, r \in RoomIds : StoreEndpoint(loc, r)

SpecStore == InitStore /\ [][NextStore]_vars

-----------------------------------------------------------------------------
(* Two browsers in one room, joined by a relay that hands every frame one of
   them sends to the other, in order *)

Other(c) == 3 - c
RelayUser(c) == [id |-> IF c = 1 THEN "u1" ELSE "u2", name |-> IF c = 1 THEN "u1" ELSE "u2"]

\* a browser's program at the start of a handler
ClientStart(c) == [clients[c] EXCEPT !.out = << >>, !.statusCalls = << >>, !.usersCalls = << >>,
                                     !.hostCalls = << >>, !.sets = << >>]
Connected(c) == SocketOpen(clients[c])

\* the handler of browser c ends in M: the relay queues what it sent for the
\* other browser if that one is connected
Relay(c, M, queue, o) ==
    /\ clients' = [clients EXCEPT ![c] = M]
    /\ wire' = [wire EXCEPT ![c] = queue,
                            ![Other(c)] = IF Connected(Other(c))
                                          THEN @ \o [i \in 1..Len(M.out) |->
                                                       Frame(M.out[i].type, M.out[i].payload)]
                                          ELSE @]
    /\ op' = o
    /\ UNCHANGED << build, programVars, out, statusCalls, usersCalls, hostCalls, sets, hist >>

RelayEnable(c) ==
    /\ UNCHANGED budget
    /\ ~clients[c].isEnabled
    /\ Relay(c, enable(ClientStart(c), "r1", RelayUser(c)), wire[c],
             [name |-> "enable", client |-> c])

RelayOpen(c) ==
    /\ UNCHANGED budget
    /\ clients[c].wsProvider # NoSocket
    /\ clients[c].sockets[clients[c].wsProvider].readyState = "CONNECTING"
    /\ Relay(c, wsOnOpen([ClientStart(c) EXCEPT !.sockets[clients[c].wsProvider].readyState = "OPEN"]),
             wire[c], [name |-> "onopen", client |-> c])

\* the host of a connected browser changes its room object and calls sync
RelaySync(c, i) ==
    /\ Spend("syncs")
    /\ Connected(1) /\ Connected(2)
    /\ Relay(c, sync([ClientStart(c) EXCEPT !.roomObj = Snapshots[i]], Snapshots[i]), wire[c],
             [name |-> "sync", client |-> c, snap |-> Snapshots[i]])

RelayDebounce(c, t, now) ==
    /\ UNCHANGED budget
    /\ t \in clients[c].timers /\ t.kind = "debounce"
    /\ LET host == clients[c].roomObj
           obj == IF Has(t.snap, "items") /\ Has(host, "items")
                  THEN Put(t.snap, "items", host.items) ELSE t.snap
       IN  Relay(c, performSync([ClientStart(c) EXCEPT !.timers = @ \ {t}], obj, now), wire[c],
                 [name |-> "debounce", client |-> c])

RelayDeliver(c) ==
    /\ Spend("frames")
    /\ Connected(c) /\ wire[c] # << >>
    /\ Relay(c, handleMessage(ClientStart(c), Head(wire[c])), Tail(wire[c]),
             [name |-> "onmessage", client |-> c, frame |-> Head(wire[c])])

InitRelay ==
    /\ InitProgram
    /\ budget = [enables |-> 0, frames |-> RelayFrames, syncs |-> RelaySyncs]

NextRelay ==
    \E c \in Browsers :
        \/ RelayEnable(c)
        \/ RelayOpen(c)
        \/ \E i \in 1..Len(Snapshots) : RelaySync(c, i)
        \/ \E t \in clients[c].timers, now \in Times : RelayDebounce(c, t, now)
        \/ RelayDeliver(c)

SpecRelay == InitRelay /\ [][NextRelay]_vars

-----------------------------------------------------------------------------
(* Properties *)

Updates(o) == SelectSeq(o, LAMBDA f : f.type = 2)
DebounceTimers == {t \in timers : t.kind = "debounce"}
ReconnectTimers == {t \in timers : t.kind = "reconnect"}
Categories == {itemCategories[i] : i \in 1..Len(itemCategories)}

\* the document a frame carries holds every field and category of obj
Carries(frame, obj) ==
    LET d == frame.payload.value
    IN  /\ \A f \in {"name", "room"} \cap DOMAIN obj :
              Has(d, "roomData") /\ Has(d.roomData, f) /\ d.roomData[f] = obj[f]
        /\ Has(obj, "items") =>
              \A c \in Categories \cap DOMAIN obj.items :
                  Has(d, "items") /\ Has(d.items, c) /\ d.items[c] = obj.items[c]

C2_Idempotence ==
    (op.name = "debounce" /\ op.enabled) =>
        /\ op.same => (sets = << >> /\ out = << >>)
        /\ ~op.same => (Len(sets) > 0 /\ lastSyncedState = hist.fired)

\* the second firing of a byte-identical snapshot, with the socket open
C2_Witness ==
    /\ op.name = "debounce" /\ op.enabled /\ op.open
    /\ op.same /\ op.calls >= 1
    /\ sets = << >> /\ out = << >>

\* C3: handling an inbound Update or SyncState frame sends no Update frame, in
\* either build.
C3_NoEcho ==
    (op.name = "onmessage" /\ ~op.frame.empty /\ op.frame.type \in {1, 2}) =>
        Updates(out) = << >>

\* C3 for the bundled build alone
C3_NoEchoBundle == build = "bundle" => C3_NoEcho

\* the modular build answers one inbound Update with four Update frames of its own
C3_Echo ==
    /\ build = "module"
    /\ op.name = "onmessage" /\ ~op.frame.empty /\ op.frame.type = 2
    /\ Len(Updates(out)) = 4
    /\ hostCalls = << >>

Live(s) == sockets[s].readyState \in {"CONNECTING", "OPEN"}

\* C4: while the facade is disabled no timer is pending, no socket is connecting
\* or open, no frame is sent and the status is 'disconnected', also after the
\* close event of the socket that disable() closed.
C4_QuietAfterDisable ==
    ~isEnabled =>
        /\ timers = {}
        /\ \A s \in 1..MaxSockets : ~Live(s)
        /\ out = << >>
        /\ connectionStatus = "disconnected"

\* a socket created by the reconnect timer while the facade is disabled
C4_ReconnectAfterDisable ==
    /\ ~isEnabled
    /\ op.name = "reconnectFire"
    /\ wsProvider # NoSocket /\ Live(wsProvider)
    /\ connectionStatus = "connecting"

\* C5: after enable(r2) was called while a session for another room r1 was
\* enabled, at most one socket is connecting or open, at most one reconnect
\* timer exists, and sockets, timers and sent frames are all for r2's endpoint.
C5_NoStackedSessions ==
    (isEnabled /\ hist.implicit # NoRoom /\ hist.implicit # currentRoomId) =>
        /\ Cardinality({s \in 1..MaxSockets : Live(s)}) <= 1
        /\ Cardinality(ReconnectTimers) <= 1
        /\ \A s \in 1..MaxSockets : Live(s) => sockets[s].url = FullUrl(currentRoomId)
        /\ \A t \in ReconnectTimers : t.url = FullUrl(currentRoomId)
        /\ \A i \in 1..Len(out) : out[i].url = FullUrl(currentRoomId)

\* the session for r2 with two sockets alive, the current one for r1's
\* endpoint, and a frame sent to it
C5_Stacked ==
    /\ isEnabled /\ currentRoomId = "r2" /\ hist.implicit = "r1"
    /\ Cardinality({s \in 1..MaxSockets : Live(s)}) = 2
    /\ wsProvider # NoSocket /\ sockets[wsProvider].url = FullUrl("r1")
    /\ Len(out) > 0 /\ out[1].url = FullUrl("r1")

\* C6: no more than 10 reconnect attempts follow one another without an open
\* in between, and once a socket closes after the 10th, no reconnect timer is
\* pending, no socket is created and the status is 'disconnected' until
\* enable() is called.
C6_Budget ==
    /\ hist.k <= MAX_RECONNECT_ATTEMPTS
    /\ hist.exhausted =>
          /\ ReconnectTimers = {}
          /\ op.name # "reconnectFire"
          /\ connectionStatus = "disconnected"

\* C6 for runs in which no session has been torn down
C6_BudgetOneSession == hist.torn \/ C6_Budget

\* the budget is used up in a run without teardown: ten attempts, then a close
C6_Exhausted ==
    /\ ~hist.torn /\ hist.exhausted /\ hist.k = MAX_RECONNECT_ATTEMPTS
    /\ op.name \in {"onclose", "onerror"}
    /\ timers = {} /\ connectionStatus = "disconnected"

\* after the budget was used up, a socket left over from a torn-down session
\* opens and the status is 'connected' without an enable()
C6_ConnectedAfterExhaustion ==
    /\ hist.exhausted
    /\ op.name = "onopen"
    /\ connectionStatus = "connected"

\* C7: the reconnect timer a close handler arms for the k-th consecutive
\* attempt, k counted from 1 since the last open or the start of the session,
\* has the delay 3000 ms * min(k, 5); k never exceeds 10.
C7_Backoff ==
    op.name \in {"onclose", "onerror"} =>
        \A t \in ReconnectTimers :
            /\ hist.k \in 1..10
            /\ t.delay = 3000 * Min(hist.k, 5)

\* the sixth attempt in a row waits 15000 ms
C7_Witness ==
    /\ op.name \in {"onclose", "onerror"}
    /\ hist.k = 6
    /\ \E t \in ReconnectTimers : t.delay = 15000

\* the first attempt waits 3000 ms
C7_WitnessFirst ==
    /\ op.name \in {"onclose", "onerror"}
    /\ hist.k = 1
    /\ \E t \in ReconnectTimers : t.delay = 3000

PeerIds(users) == {users[i].state.user.id : i \in {j \in 1..Len(users) : ~users[j].isLocal}}
IsAwareness(frame) == ~frame.empty /\ frame.type = 4 /\ frame.payload.kind = "json"
FromSelf(frame) ==
    /\ IsAwareness(frame)
    /\ Has(frame.payload.value, "user")
    /\ frame.payload.value.user.id = localUser.id

\* C8: when the last two AwarenessUpdates the session accepted came from the
\* same peer, getConnectedUsers() lists no other peer.
C8_Pruning ==
    (awareness.alive /\ Len(hist.recent) = 2 /\ hist.recent[1] = hist.recent[2]) =>
        PeerIds(getConnectedUsers(Cur)) \subseteq {hist.recent[2]}

\* peer u2 broadcast once, then only A did, twice, and the list handed to the
\* users callback still has u2
C8_StalePeer ==
    /\ op.name = "onmessage" /\ awareness.alive
    /\ hist.recent = << "A", "A" >>
    /\ Len(usersCalls) > 0
    /\ PeerIds(usersCalls[Len(usersCalls)]) = {"u2", "A"}

\* C9: an AwarenessUpdate whose user id is the local user's leaves the peer
\* table unchanged and notifies no awareness listener, and the peer table never
\* has an entry for the local user's id.
C9_SelfFilter ==
    /\ (op.name = "onmessage" /\ FromSelf(op.frame)) =>
          (awareness = op.before /\ usersCalls = << >>)
    /\ awareness.alive => localUser.id \notin DOMAIN awareness.states

\* a frame from the local user's id arrives while peers are in the table
C9_Witness ==
    /\ op.name = "onmessage" /\ FromSelf(op.frame)
    /\ awareness.alive /\ awareness.states # EmptyObj
    /\ usersCalls = << >>

\* C10: the room object handed to the host for remote items has, for every
\* category of the remote items, exactly the remote list, and for every other
\* category its local list; nothing else of the room object changes.
C10_CategoryReplace ==
    \A i \in 1..Len(hostCalls) :
        LET e == hostCalls[i]
            localItems == IF Has(e.local, "items") THEN e.local.items ELSE EmptyObj
        IN  e.via = "items" =>
                /\ DOMAIN e.updated = DOMAIN e.local \cup {"items"}
                /\ \A f \in DOMAIN e.local \ {"items"} : e.updated[f] = e.local[f]
                /\ DOMAIN e.updated.items = DOMAIN localItems \cup DOMAIN e.remote
                /\ \A c \in DOMAIN e.remote : e.updated.items[c] = e.remote[c]
                /\ \A c \in DOMAIN localItems \ DOMAIN e.remote :
                       e.updated.items[c] = localItems[c]

\* remote chairs [x] over local chairs [y, z]: the host gets chairs [x]
C10_Witness ==
    \E i \in 1..Len(hostCalls) :
        /\ hostCalls[i].via = "items"
        /\ Has(hostCalls[i].local, "items") /\ Has(hostCalls[i].local.items, "chairs")
        /\ hostCalls[i].local.items.chairs = << "y", "z" >>
        /\ hostCalls[i].remote.chairs = << "x" >>
        /\ hostCalls[i].updated.items.chairs = << "x" >>
        /\ roomObj.items.chairs = << "x" >>

\* remote items without tables over local tables [t]: the host keeps tables [t]
C10_WitnessKept ==
    \E i \in 1..Len(hostCalls) :
        /\ hostCalls[i].via = "items"
        /\ ~Has(hostCalls[i].remote, "tables")
        /\ Has(hostCalls[i].local, "items") /\ Has(hostCalls[i].local.items, "tables")
        /\ hostCalls[i].updated.items.tables = << "t" >>

\* C11: the room object handed to the host for remote room data has, for every
\* top-level field of the remote data, exactly the remote value, and for every
\* other field its local value.
C11_MergePolicy ==
    \A i \in 1..Len(hostCalls) :
        LET e == hostCalls[i]
        IN  e.via = "roomData" =>
                /\ \A f \in DOMAIN e.remote :
                       Has(e.updated, f) /\ e.updated[f] = e.remote[f]
                /\ \A f \in DOMAIN e.local \ DOMAIN e.remote :
                       Has(e.updated, f) /\ e.updated[f] = e.local[f]

\* remote room {w: 2} over local room {w: 1, h: 1}: the host gets {w: 2, h: 1}
C11_SubfieldSurvives ==
    \E i \in 1..Len(hostCalls) :
        /\ hostCalls[i].via = "roomData"
        /\ Has(hostCalls[i].remote, "room") /\ hostCalls[i].remote.room = [w |-> 2]
        /\ Has(hostCalls[i].local, "room") /\ hostCalls[i].local.room = [w |-> 1, h |-> 1]
        /\ hostCalls[i].updated.room = [w |-> 2, h |-> 1]


\* C12: applying the snapshot of a document over roomData, items and meta to a
\* new, empty peer document gives the peer the same maps with the same keys and
\* values.
C12_RoundTrip ==
    op.name = "roundtrip" => op.peer.data = op.doc.data
\* a document with all three maps and several keys has been replicated
C12_Witness ==
    /\ op.name = "roundtrip"
    /\ DOMAIN op.doc.data = {"roomData", "items", "meta"}
    /\ op.doc.data.roomData = [name |-> "b", room |-> [w |-> 1]]
    /\ op.doc.data.items = [chairs |-> << "x" >>, tables |-> << "t" >>]
    /\ op.peer.data = op.doc.data


\* every entry a payload names is in the document
Applied(p) ==
    /\ p.kind = "json"
    /\ \A m \in DOMAIN p.value :
          /\ ~IsNull(p.value[m])
          /\ \A k \in DOMAIN p.value[m] :
                Has(ydoc.data, m) /\ Has(ydoc.data[m], k) /\ ydoc.data[m][k] = p.value[m][k]

\* C13: a SyncStep2 or Update payload is applied whole or not at all: after the
\* handler either every entry the payload names is in the document, or the
\* document is as it was, no observer has run and nothing was sent.
C13_AllOrNothing ==
    (op.name = "onmessage" /\ ~op.frame.empty /\ op.frame.type \in {1, 2} /\ op.docBefore.alive) =>
        \/ Applied(op.frame.payload)
        \/ ydoc = op.docBefore /\ hostCalls = << >> /\ out = << >>
\* a payload whose items entry is null: the name of roomData is merged and its
\* observers have run, the rest of the payload is lost
C13_PartialMerge ==
    /\ op.name = "onmessage" /\ ~op.frame.empty /\ op.frame.type = 2
    /\ op.frame.payload = JSONStringify(DocBad)
    /\ op.docBefore.alive
    /\ ~Has(op.docBefore.data.roomData, "name")
    /\ ydoc.data.roomData = Put(op.docBefore.data.roomData, "name", "c")
    /\ ydoc.data.items = op.docBefore.data.items
    /\ hostCalls # << >> \/ out # << >>


\* C14: after a payload has been applied without error, each map the payload
\* names holds exactly the payload's keys and values for that map.
C14_FullReplacement ==
    (op.name = "onmessage" /\ ~op.frame.empty /\ op.frame.type \in {1, 2} /\ op.docBefore.alive
        /\ op.frame.payload.kind = "json"
        /\ \A m \in DOMAIN op.frame.payload.value : ~IsNull(op.frame.payload.value[m])) =>
        \A m \in DOMAIN op.frame.payload.value :
            Has(ydoc.data, m) /\ ydoc.data[m] = op.frame.payload.value[m]
\* the snapshot names items with chairs only; the local tables, absent from the
\* snapshot, are still in the items map after it has been applied
C14_KeySurvives ==
    /\ op.name = "onmessage" /\ ~op.frame.empty /\ op.frame.type = 2
    /\ op.frame.payload = JSONStringify(DocA)
    /\ op.docBefore.alive
    /\ Has(op.docBefore.data.items, "tables")
    /\ ydoc.data.items.chairs = DocA.items.chairs
    /\ Has(ydoc.data.items, "tables")
    /\ ydoc.data.items.tables = op.docBefore.data.items.tables


\* a frame of no length, of an unknown type, or whose payload does not parse
BadFrame(frame) ==
    \/ frame.empty
    \/ frame.type \notin 0..4
    \/ frame.type \in {1, 2, 4} /\ frame.payload = Corrupt

\* C15: handling a bad inbound frame changes nothing: the document, the peer
\* table, the connection status and all other program state are as before the
\* frame, nothing is sent and no callback of the host runs, so what follows is
\* handled as if the frame had not arrived.
C15_BadFrameDropped ==
    [][(op'.name = "onmessage" /\ BadFrame(op'.frame)) =>
          /\ UNCHANGED programVars
          /\ out' = << >> /\ statusCalls' = << >> /\ usersCalls' = << >> /\ hostCalls' = << >>]_vars
\* an empty frame has been handled on the open socket of a connected session
\* with a live document
C15_Witness ==
    /\ op.name = "onmessage" /\ op.frame.empty
    /\ isEnabled /\ ydoc.alive /\ connectionStatus = "connected"
    /\ wsProvider = op.sock /\ sockets[op.sock].readyState = "OPEN"
    /\ out = << >>


\* both browsers are connected, no push is pending and the relay holds no frame
Quiescent ==
    /\ Connected(1) /\ Connected(2)
    /\ \A c \in Browsers : wire[c] = << >> /\ clients[c].timers = {}

\* C16: when both browsers are connected, no push is pending and every frame
\* has been delivered, the two documents hold equal roomData and items maps.
C16_Convergence ==
    Quiescent =>
        /\ clients[1].ydoc.data.roomData = clients[2].ydoc.data.roomData
        /\ clients[1].ydoc.data.items = clients[2].ydoc.data.items
\* two pushes crossed on the relay: each browser ends with the other's name
C16_Swapped ==
    /\ Quiescent
    /\ Has(clients[1].ydoc.data.roomData, "name") /\ Has(clients[2].ydoc.data.roomData, "name")
    /\ clients[1].ydoc.data.roomData.name # clients[2].ydoc.data.roomData.name


\* C17: sync, updateCursor, updateSelection and disable called while the
\* session is not enabled change nothing of the program: no timer is started,
\* no key of the document is set, the awareness record is as before, no frame
\* is sent and isEnabled stays false.  (roomObj is the host's own object.)
C17_NoOpWhenDisabled ==
    [][(~isEnabled /\ op'.name \in {"sync", "updateCursor", "updateSelection", "disable"}) =>
          /\ UNCHANGED << isEnabled, currentRoomId, callbacks, syncEnabled, isRemoteUpdate,
                          lastSyncedState, syncCallbacks, localChangeTimer, ydoc, wsProvider,
                          awareness, connectionStatus, connectionListeners, awarenessListeners,
                          roomId, localUser, reconnectAttempts, reconnectTimer, sockets, timers >>
          /\ out' = << >> /\ sets' = << >> /\ statusCalls' = << >> /\ usersCalls' = << >>
          /\ hostCalls' = << >>]_vars
\* sync was called after the session had been disabled
C17_Witness ==
    /\ op.name = "sync" /\ ~isEnabled /\ hist.torn
    /\ DebounceTimers = {} /\ out = << >> /\ sets = << >>


\* C18: while the session is enabled, getUsers() is the local user's record
\* flagged isLocal first, followed by one record not flagged isLocal for each
\* entry of the peer table and nothing else.
C18_UsersShape ==
    isEnabled =>
        LET users == getUsers(Cur)
            peers == DOMAIN awareness.states
        IN  /\ Len(users) = 1 + Cardinality(peers)
            /\ users[1].isLocal /\ users[1].state.user = localUser
            /\ \A i \in 2..Len(users) : ~users[i].isLocal
            /\ \A p \in peers :
                  Cardinality({i \in 2..Len(users) : users[i].state = awareness.states[p]}) = 1
\* two peers are in the table and the local cursor has been set
C18_Witness ==
    /\ isEnabled /\ op.name = "onmessage"
    /\ Cardinality(DOMAIN awareness.states) = 2
    /\ awareness.localState.cursor = "p1"
    /\ Len(getUsers(Cur)) = 3
    /\ getUsers(Cur)[1] = [state |-> awareness.localState, isLocal |-> TRUE]


\* C19: the connection status is one of disconnected, connecting, connected;
\* when enable() returns, getStatus() and every status handed to the status
\* callback is connecting; and a step that enters connected starts in connecting.
C19_StatusMachine ==
    [][/\ connectionStatus' \in {"disconnected", "connecting", "connected"}
       /\ (op'.name = "enable" /\ isEnabled') =>
              /\ connectionStatus' = "connecting"
              /\ \A i \in 1..Len(statusCalls') : statusCalls'[i] = "connecting"
       /\ (connectionStatus' = "connected" /\ connectionStatus # "connected") =>
              connectionStatus = "connecting"]_vars
\* enable() has returned with the socket still connecting: getStatus() and the
\* status handed to the callback are disconnected
C19_DisconnectedWhileConnecting ==
    /\ op.name = "enable" /\ isEnabled
    /\ wsProvider # NoSocket /\ sockets[wsProvider].readyState = "CONNECTING"
    /\ getStatus(Cur) = "disconnected"
    /\ statusCalls = << "disconnected" >>


\* C20: the program does not change the host's room object: a push leaves it
\* as it is, and the object getRoomObj returned is, after a remote change has
\* been handled, as it was when it was returned.
C20_CopyOnRead ==
    [][/\ op'.name = "debounce" => roomObj' = roomObj
       /\ \A i \in 1..Len(hostCalls') : hostCalls'[i].after = hostCalls'[i].local]_vars
\* remote items were handled: the items container of the object the host
\* returned holds the remote chairs, before onRoomUpdate was called
C20_HostObjectChanged ==
    \E i \in 1..Len(hostCalls) :
        LET e == hostCalls[i]
        IN  /\ e.via = "items"
            /\ Has(e.local, "items") /\ Has(e.remote, "chairs")
            /\ e.local.items.chairs # e.remote.chairs
            /\ e.after.items.chairs = e.remote.chairs
            /\ e.after # e.local


\* C21: the endpoint for room r on a page of host h is <scheme>://h/ws/r, with
\* scheme wss for an https page and ws otherwise.
C21_Endpoint ==
    op.name = "endpoint" =>
        op.url = << IF op.loc.protocol = "https:" THEN "wss:" ELSE "ws:", op.loc.host,
                    "ws", op.room >>
\* the endpoint computed for room r1 on an http page: ws://host/ws/yjs/r1
C21_YjsSegment ==
    /\ op.name = "endpoint" /\ op.loc = [protocol |-> "http:", host |-> "host"] /\ op.room = "r1"
    /\ op.url = << "ws:", "host", "ws", "yjs", "r1" >>


\* C22: a close event handled while fewer than ten attempts are counted leaves
\* the status connecting with exactly one reconnect timer pending, for the
\* closed socket's endpoint; the status listeners hear disconnected and then
\* connecting; and when a reconnect timer for an endpoint that sockets can be
\* created for fires, a new socket is created for that endpoint.
C22_CloseThenReconnect ==
    [][/\ (op'.name \in {"onclose", "onerror"} /\ reconnectAttempts < MAX_RECONNECT_ATTEMPTS) =>
              /\ connectionStatus' = "connecting"
              /\ Cardinality({t \in timers' : t.kind = "reconnect"}) = 1
              /\ \A t \in timers' : t.kind = "reconnect" => t.url = op'.url
              /\ \A i, j \in 1..Len(statusCalls') :
                    (statusCalls'[i] = "disconnected" /\ statusCalls'[j] = "connecting") => i < j
              /\ (syncCallbacks /\ connectionListeners > 0) =>
                    /\ statusCalls'[1] = "disconnected"
                    /\ statusCalls'[Len(statusCalls')] = "connecting"
       /\ (op'.name = "reconnectFire" /\ ~CtorThrows(op'.url)) =>
              /\ wsProvider' # NoSocket
              /\ sockets[wsProvider'].readyState = "CLOSED"
              /\ sockets'[wsProvider'] = [url |-> op'.url, readyState |-> "CONNECTING"]]_vars
\* the socket of an enabled session closed: the listener heard disconnected and
\* connecting and one timer is pending
C22_Witness ==
    /\ op.name = "onclose" /\ op.wasCurrent /\ isEnabled
    /\ statusCalls = << "disconnected", "connecting" >>
    /\ connectionStatus = "connecting"
    /\ Cardinality(ReconnectTimers) = 1


\* C23: a transport error by itself sets the status to disconnected and
\* triggers the reconnect scheduler.  For a constructor that throws: the
\* listeners hear disconnected first and, while fewer than ten attempts are
\* counted, the attempt is counted and a timer for the endpoint is pending.
\* For an error event: when its handler has returned, before the close event
\* is handled, the status is disconnected and, while fewer than ten attempts
\* are counted, a reconnect has been scheduled.
C23_ErrorSchedulesReconnect ==
    [][/\ (op'.name = "reconnectFire" /\ CtorThrows(op'.url)) =>
              /\ (syncCallbacks /\ connectionListeners > 0) => statusCalls'[1] = "disconnected"
              /\ IF reconnectAttempts < MAX_RECONNECT_ATTEMPTS
                 THEN /\ reconnectAttempts' = reconnectAttempts + 1
                      /\ \E t \in timers' : t.kind = "reconnect" /\ t.held /\ t.url = op'.url
                 ELSE connectionStatus' = "disconnected"
       /\ op'.name = "onerror" =>
              /\ op'.errorAlone.status = "disconnected"
              /\ reconnectAttempts < MAX_RECONNECT_ATTEMPTS => op'.errorAlone.scheduled]_vars
\* C23 as the code has it: a constructor that throws sets disconnected and
\* schedules the reconnect; the handler of an error event sets disconnected
\* and schedules nothing, and the close event delivered with the error
\* schedules the reconnect, once.
C23_ErrorThenClose ==
    [][/\ (op'.name = "reconnectFire" /\ CtorThrows(op'.url)) =>
              /\ (syncCallbacks /\ connectionListeners > 0) => statusCalls'[1] = "disconnected"
              /\ IF reconnectAttempts < MAX_RECONNECT_ATTEMPTS
                 THEN /\ reconnectAttempts' = reconnectAttempts + 1
                      /\ \E t \in timers' : t.kind = "reconnect" /\ t.held /\ t.url = op'.url
                 ELSE connectionStatus' = "disconnected"
       /\ op'.name = "onerror" =>
              /\ op'.errorAlone = [status |-> "disconnected", scheduled |-> FALSE]
              /\ reconnectAttempts < MAX_RECONNECT_ATTEMPTS =>
                    /\ reconnectAttempts' = reconnectAttempts + 1
                    /\ Cardinality({t \in timers' : t.kind = "reconnect"}) = 1
                    /\ \A t \in timers' : t.kind = "reconnect" => t.url = op'.url]_vars
\* the error event of the session's socket was handled with no attempt counted
\* before: its handler set disconnected and scheduled nothing; the timer that is
\* pending now was armed by the close event
C23_ErrorAloneSchedulesNothing ==
    /\ op.name = "onerror" /\ op.wasCurrent /\ isEnabled
    /\ op.errorAlone = [status |-> "disconnected", scheduled |-> FALSE]
    /\ reconnectAttempts = 1 /\ hist.k = 1
    /\ Cardinality(ReconnectTimers) = 1


\* C24: when the socket of an enabled session opens, the program sends a
\* SyncRequest frame and then an AwarenessUpdate frame with the local
\* awareness state.
C24_OpenHandshake ==
    (op.name = "onopen" /\ isEnabled /\ wsProvider = op.sock) =>
        /\ Len(out) = 2
        /\ out[1].type = 0 /\ out[1].sock = op.sock
        /\ out[2].type = 4 /\ out[2].sock = op.sock
        /\ out[2].payload = JSONStringify(awareness.localState)
\* the socket of an enabled session opened: the SyncRequest is all that was sent
C24_NoAwarenessFlush ==
    /\ op.name = "onopen" /\ isEnabled /\ wsProvider = op.sock
    /\ awareness.alive /\ awareness.localState.user = localUser
    /\ Len(out) = 1 /\ out[1].type = 0 /\ out[1].sock = op.sock


\* C25: a SyncRequest frame received over an open socket while the session is
\* enabled is answered with exactly one SyncState frame whose payload is the
\* snapshot of the whole document (roomData, items and meta), and the
\* document is unchanged.
C25_SyncReply ==
    (op.name = "onmessage" /\ ~op.frame.empty /\ op.frame.type = 0 /\ isEnabled) =>
        /\ Len(out) = 1
        /\ out[1].type = 1
        /\ out[1].payload = JSONStringify([m \in {"roomData", "items", "meta"} |-> ydoc.data[m]])
        /\ ydoc = op.docBefore

\* a SyncRequest arrived on the open socket of the enabled session while
\* wsProvider holds the socket a stale reconnect created: nothing is sent
C25_NoReply ==
    /\ op.name = "onmessage" /\ ~op.frame.empty /\ op.frame.type = 0
    /\ isEnabled /\ ydoc.alive
    /\ sockets[op.sock].readyState = "OPEN" /\ sockets[op.sock].url = FullUrl(currentRoomId)
    /\ wsProvider # op.sock
    /\ out = << >>


\* C26: while the socket is open, every YMap.set a push makes, on roomData,
\* items or meta, sends one Update frame with the document as it is after
\* that set; the last Update frame of the push carries the stamp of the push.
C26_EverySetSends ==
    (op.name = "debounce" /\ op.open /\ sets # << >>) =>
        /\ Len(Updates(out)) = Len(sets)
        /\ LET last == Updates(out)[Len(Updates(out))].payload.value
           IN  /\ Has(last, "meta") /\ Has(last.meta, "lastUpdated")
               /\ Has(last.meta, "lastUpdatedBy")
               /\ last.meta = ydoc.data.meta
               /\ last.meta.lastUpdatedBy = localUser.id
\* a first push over the open socket: the two sets on meta sent nothing and
\* the last Update frame has no stamp
C26_StampNotSent ==
    /\ op.name = "debounce" /\ op.open /\ isEnabled /\ wsProvider # NoSocket
    /\ Len(sets) >= 3
    /\ sets[Len(sets)] = << "meta", "lastUpdatedBy" >>
    /\ Len(Updates(out)) = Len(sets) - 2
    /\ ydoc.data.meta.lastUpdatedBy = localUser.id
    /\ ~Has(Updates(out)[Len(Updates(out))].payload.value.meta, "lastUpdatedBy")


\* the calls the host got for one map, in order
CallsVia(map) == SelectSeq(hostCalls, LAMBDA e : e.via = map)
\* a parseable payload with an entry for roomData or items
TouchesObserved(p) ==
    /\ p.kind = "json"
    /\ \E m \in DOMAIN p.value \cap ObservedMaps : ~IsNull(p.value[m]) /\ DOMAIN p.value[m] # {}

\* C27: in the bundled build, a SyncState or Update frame with a parseable
\* payload for roomData or items, received while the session is enabled, is
\* applied as a remote change: nothing is sent back, and the host's callback
\* for each of the two maps that is not empty is called, last with the whole
\* contents of that map; a local push calls neither callback.
C27_RemoteCallbacks ==
    build = "bundle" =>
        /\ (op.name = "onmessage" /\ isEnabled /\ ~op.frame.empty /\ op.frame.type \in {1, 2}
              /\ TouchesObserved(op.frame.payload)) =>
              /\ out = << >>
              /\ hostCalls # << >>
              /\ \A m \in ObservedMaps :
                    DOMAIN ydoc.data[m] # {} =>
                        /\ CallsVia(m) # << >>
                        /\ CallsVia(m)[Len(CallsVia(m))].remote = toJSON(ydoc.data[m])
        /\ op.name \in {"sync", "debounce"} => hostCalls = << >>
\* the document of a peer was received: the last calls carry the whole
\* roomData and items maps
C27_Witness ==
    /\ build = "bundle" /\ op.name = "onmessage" /\ isEnabled
    /\ op.frame = Frame(2, JSONStringify(DocB))
    /\ CallsVia("roomData") # << >> /\ CallsVia("items") # << >>
    /\ CallsVia("roomData")[Len(CallsVia("roomData"))].remote = DocB.roomData
    /\ CallsVia("items")[Len(CallsVia("items"))].remote = DocB.items
    /\ out = << >>

\* the field of the local awareness record each presence call sets
FieldOf(name) == IF name = "updateCursor" THEN "cursor" ELSE "selection"

\* C28: each updateCursor / updateSelection call of an enabled session sets
\* the one field it was given in the local awareness record and leaves the
\* other fields as they were; when the provider's socket is open the call
\* sends exactly one AwarenessUpdate frame (type 4) carrying the merged
\* record, otherwise none; it arms and clears no timer.
C28_AwarenessMerge ==
    [][(isEnabled /\ op'.name \in {"updateCursor", "updateSelection"}) =>
          LET f == FieldOf(op'.name)
          IN  /\ awareness'.alive
              /\ DOMAIN awareness'.localState = DOMAIN awareness.localState
              /\ awareness'.localState[f] = op'.arg
              /\ \A g \in DOMAIN awareness.localState \ {f} :
                    awareness'.localState[g] = awareness.localState[g]
              /\ awareness'.states = awareness.states
              /\ timers' = timers /\ localChangeTimer' = localChangeTimer
              /\ IF SocketOpen(Cur)
                 THEN /\ Len(out') = 1
                      /\ out'[1].sock = wsProvider
                      /\ out'[1].type = 4
                      /\ out'[1].payload = JSONStringify(awareness'.localState)
                 ELSE out' = << >>]_vars
\* a selection is set after a cursor on an open socket: the frame carries both
C28_Witness ==
    /\ isEnabled /\ op.name = "updateSelection" /\ SocketOpen(Cur)
    /\ awareness.localState.cursor = "p1"
    /\ awareness.localState.selection = << "x" >>
    /\ Len(out) = 1 /\ out[1].type = 4
    /\ out[1].payload = JSONStringify(awareness.localState)

\* C29: the guard flag isRemoteUpdate is set for the whole time an inbound
\* remote change is applied to the store and handed to the host, and is clear
\* otherwise, so that a push attempted from inside the application is
\* suppressed.
C29_GuardWhileApplying ==
    /\ ~isRemoteUpdate
    /\ op.name = "onmessage" => \A i \in 1..Len(hostCalls) : hostCalls[i].guard
\* a peer's document has been applied and handed to the host with the flag
\* clear, and a push made at that point arms the debounce timer
C29_GuardClearWhileApplying ==
    /\ op.name = "onmessage" /\ isEnabled /\ op.frame = Frame(2, JSONStringify(DocB))
    /\ hostCalls # << >>
    /\ \A i \in 1..Len(hostCalls) : ~hostCalls[i].guard
    /\ syncRoomObj([Cur EXCEPT !.isRemoteUpdate = TRUE], roomObj).localChangeTimer = TimerHandle

\* C30: the reconnect attempt counter is always between 0 and 10; it is 0
\* after every open event and after every disable(); it grows by exactly one
\* when a reconnect is scheduled, and only a failure is counted: the close of
\* a socket the program did not close itself, or a constructor that throws.
C30_AttemptCounter ==
    [][/\ reconnectAttempts' \in 0..MAX_RECONNECT_ATTEMPTS
       /\ op'.name \in {"onopen", "disable"} => reconnectAttempts' = 0
       /\ reconnectAttempts' > reconnectAttempts =>
              /\ reconnectAttempts' = reconnectAttempts + 1
              /\ ReconnectTimers' # {}
              /\ op'.name \in {"onclose", "onerror"} =>
                     sockets[op'.sock].readyState # "CLOSING"]_vars
\* the facade is disabled, the counter is not 0 and disable() leaves it there:
\* the close event of the socket the teardown closed was counted
C30_CountedAfterDisable ==
    /\ op.name = "disable" /\ ~op.was
    /\ ~isEnabled
    /\ reconnectAttempts > 0

\* C30 as the handlers have it: the counter is always between 0 and 10; a step
\* that schedules a reconnect adds exactly one to it and no other step raises
\* it; it is 0 after every open event and after every disable() of an enabled
\* session, which includes the teardown enable() makes of an enabled session;
\* enable() itself schedules a reconnect only when the constructor throws.
C30_CounterMechanics ==
    [][LET armed == IF ReconnectTimers' # {} THEN 1 ELSE 0
       IN  /\ reconnectAttempts' \in 0..MAX_RECONNECT_ATTEMPTS
           /\ op'.name = "onopen" => reconnectAttempts' = 0
           /\ (op'.name = "disable" /\ op'.was) => reconnectAttempts' = 0
           /\ op'.name = "enable" =>
                  LET from == IF isEnabled THEN 0 ELSE reconnectAttempts
                  IN  /\ reconnectAttempts' = Thrown(from, FullUrl(op'.room))
                      /\ reconnectAttempts' > from =>
                            \E t \in ReconnectTimers' : t.url = FullUrl(op'.room)
           /\ op'.name \in {"onclose", "onerror", "reconnectFire"} =>
                  reconnectAttempts' = reconnectAttempts + armed
           /\ (op'.name = "onmessage" \/ (op'.name = "disable" /\ ~op'.was)) =>
                  reconnectAttempts' = reconnectAttempts]_vars
\* the counter has reached 10 and the close that followed left it there
C30_CounterAtCap ==
    /\ op.name \in {"onclose", "onerror"}
    /\ reconnectAttempts = MAX_RECONNECT_ATTEMPTS
    /\ hist.exhausted
    /\ ReconnectTimers = {}

\* C31: in every state at most one reconnect timer is pending, and it is the
\* one whose handle reconnectTimer holds: scheduling a reconnect cancels the
\* timer that was pending, also when the error and the close of one socket or
\* the closes of several sockets are delivered.
C31_OneReconnectTimer ==
    /\ Cardinality(ReconnectTimers) <= 1
    /\ \A t \in ReconnectTimers : t.held /\ reconnectTimer = TimerHandle
\* two sockets of a torn-down and a current session have both ended: the second
\* end replaced the timer of the first, and one timer for the second attempt is left
C31_Witness ==
    /\ op.name \in {"onclose", "onerror"}
    /\ hist.torn
    /\ \A s \in 1..MaxSockets : sockets[s].readyState = "CLOSED"
    /\ reconnectAttempts = 2
    /\ Cardinality(ReconnectTimers) = 1
    /\ \A t \in ReconnectTimers : t.delay = 2 * RECONNECT_INTERVAL

\* the same machine with the other build loaded
Twin(M) == [M EXCEPT !.build = IF @ = "module" THEN "bundle" ELSE "module"]
\* the machine as it was when the last inbound frame arrived (modular build,
\* whose message handler leaves the host's room object alone)
BeforeFrame == [Start EXCEPT !.ydoc = op.docBefore, !.awareness = op.before]

\* C32: the two builds are equivalent: from the same state, the same inbound
\* frame makes both builds send the same frames, leaves both with the same
\* document and room object and makes both call the host with the same updates.
C32_BuildsAgree ==
    [][op'.name = "onmessage" =>
          LET T == handleMessage(Twin(Start), op'.frame)
          IN  /\ T.ydoc = ydoc'
              /\ T.out = out'
              /\ T.hostCalls = hostCalls'
              /\ T.roomObj = roomObj']_vars
\* one Update frame from a peer: the modular build answers with Update frames
\* and calls no host callback, the bundled build sends nothing and calls the host
C32_BuildsDiffer ==
    /\ build = "module" /\ isEnabled
    /\ op.name = "onmessage" /\ op.frame = Frame(2, JSONStringify(DocB))
    /\ out # << >> /\ hostCalls = << >>
    /\ LET T == handleMessage(Twin(BeforeFrame), op.frame)
       IN  T.out = << >> /\ T.hostCalls # << >> /\ T.ydoc = ydoc

\* C33: a snapshot is recorded as last pushed only when an Update frame that
\* carries it was written to an open socket: a firing of the debounce timer
\* that records a new snapshot finds the socket open and sends Update frames.
C33_RecordedOnlyIfSent ==
    (/\ op.name = "debounce" /\ op.enabled /\ ~op.same
     /\ lastSyncedState = JSONStringify(createSyncableRoomObj(op.obj))) =>
        /\ op.open
        /\ Updates(out) # << >>
\* the timer fired while the socket was not open: the store was written and the
\* snapshot recorded, but no frame left, so an identical sync() later is suppressed
C33_RecordedUnsent ==
    /\ op.name = "debounce" /\ op.enabled /\ ~op.open /\ ~op.same
    /\ sets # << >> /\ out = << >>
    /\ lastSyncedState = JSONStringify(createSyncableRoomObj(op.obj))
    /\ performSync(Cur, op.obj, 1) = Cur

\* C34: the host's status callback is called exactly once for a status change
\* and its users callback exactly once for an accepted peer AwarenessUpdate,
\* whatever enable() / disable() calls came before: the open event of an
\* enabled session reports 'connected' once, and a peer's record once.
C34_OneCallPerChange ==
    isEnabled =>
        /\ op.name = "onopen" => statusCalls = << "connected" >>
        /\ (op.name = "onmessage" /\ IsPeerAwareness(op.frame)) => Len(usersCalls) = 1
\* in the second session a peer's record is reported twice: the listener of
\* the first session is still registered
C34_CalledTwice ==
    /\ isEnabled /\ hist.torn
    /\ op.name = "onmessage" /\ IsPeerAwareness(op.frame)
    /\ awarenessListeners = 2
    /\ Len(usersCalls) = 2 /\ usersCalls[1] = usersCalls[2]

\* C35: applying one inbound SyncState or Update frame is atomic for the host:
\* every call of onRoomDataChange / onItemsChange made while the frame is
\* handled carries map contents that hold every key the frame has for that map.
C35_AtomicForHost ==
    (op.name = "onmessage" /\ ~op.frame.empty /\ op.frame.type \in {1, 2}
        /\ op.frame.payload.kind = "json") =>
        \A i \in 1..Len(hostCalls) :
            LET m == hostCalls[i].via
                p == op.frame.payload.value
            IN  (Has(p, m) /\ ~IsNull(p[m])) =>
                    \A k \in DOMAIN p[m] :
                        Has(hostCalls[i].remote, k) /\ hostCalls[i].remote[k] = p[m][k]
\* the first call made for a frame that carries a name and a room has the name
\* only; later calls of the same frame carry both
C35_HalfAppliedSeen ==
    /\ build = "bundle" /\ isEnabled
    /\ op.name = "onmessage" /\ op.frame = Frame(2, JSONStringify(DocB))
    /\ Len(hostCalls) > 2
    /\ hostCalls[1].via = "roomData" /\ hostCalls[1].remote = [name |-> "b"]
    /\ hostCalls[2].via = "roomData" /\ hostCalls[2].remote = DocB.roomData
    /\ ~Has(hostCalls[1].updated, "room") \/ hostCalls[1].updated.room # hostCalls[2].updated.room

\* C36: getStatus() is 'connected' only while the socket the transport holds
\* is open, so that a frame sent while the status is 'connected' is written to it.
C36_ConnectedMeansOpen == getStatus(Cur) = "connected" => SocketOpen(Cur)

\* C36 for runs in which no session has been torn down
C36_ConnectedMeansOpenOneSession == hist.torn \/ C36_ConnectedMeansOpen

\* the status is 'connected' because the session's socket opened, but the
\* transport holds the connecting socket of a stale reconnect: an Update sent
\* now is dropped
C36_ConnectedOnOtherSocket ==
    /\ isEnabled /\ getStatus(Cur) = "connected"
    /\ wsProvider # NoSocket /\ sockets[wsProvider].readyState = "CONNECTING"
    /\ \E s \in 1..MaxSockets : s # wsProvider /\ sockets[s].readyState = "OPEN"
    /\ sendUpdate(Start, encodeStateAsUpdate(ydoc)).out = << >>

\* C37: the document and the awareness records survive reconnection: the close
\* and error events, the reconnect timer and the open event leave the document
\* and the local awareness record as they are, and a document or an awareness
\* record that exists ceases to exist only in disable().
C37_SurvivesReconnect ==
    [][/\ op'.name \in {"onclose", "onerror", "reconnectFire", "onopen"} =>
              /\ ydoc' = ydoc
              /\ awareness' = awareness
       /\ (ydoc.alive /\ ~ydoc'.alive) => op'.name = "disable"
       /\ (awareness.alive /\ ~awareness'.alive) => op'.name = "disable"]_vars
\* the socket has opened again after a reconnect and the pushed room and the
\* cursor are still there
C37_Witness ==
    /\ isEnabled /\ op.name = "onopen"
    /\ reconnectTimer = TimerHandle /\ ReconnectTimers = {}
    /\ ydoc.alive /\ Has(ydoc.data, "roomData") /\ Has(ydoc.data.roomData, "name")
    /\ Has(ydoc.data, "meta") /\ Has(ydoc.data.meta, "lastUpdatedBy")
    /\ awareness.alive /\ awareness.localState.cursor = "p1"

\* C38: between handlers the three layers agree on whether a session exists:
\* isEnabled() is true exactly when the sync layer is enabled, exactly when the
\* document exists and exactly when the local awareness record exists; getUsers()
\* is empty while disabled and not empty while enabled.
C38_LayersAgree ==
    /\ isEnabled <=> syncEnabled
    /\ isEnabled <=> ydoc.alive
    /\ isEnabled <=> awareness.alive
    /\ isEnabled <=> getUsers(Cur) # << >>
\* a second session has been enabled after the first was torn down: all three
\* layers are up and getUsers() is the local user alone
C38_Witness ==
    /\ op.name = "enable" /\ hist.torn
    /\ isEnabled /\ syncEnabled /\ ydoc.alive /\ awareness.alive
    /\ getUsers(Cur) = << [state |-> awareness.localState, isLocal |-> TRUE] >>

====
